---- MODULE Spec2Model ----
(***************************************************************************)
(* Two concurrent sorted linked lists of integers:                         *)
(*   FineGrainedList (src/unnamed/part_001): hand-over-hand lock coupling  *)
(*   MarkedList (src/2025/lecture10/optimistic-locking.cpp): lazy list,    *)
(*     unlocked traversal, lock + validate, logical then physical removal  *)
(* Every thread runs a bounded number of insert/remove/contains calls.     *)
(* One step of a thread is one lock operation or one access to a shared    *)
(* field that is not protected by a lock the thread holds; accesses that   *)
(* are protected by a held lock are joined to the neighbouring step.       *)
(***************************************************************************)
EXTENDS Integers, FiniteSets, Sequences

\* ------------------------------------------------------------------ bounds
NumThreads == 2
MaxOps == 2
MaxSeqOps == 4
MaxVal == 1
MaxPre == 3
PreOps == 1

\* -------------------------------------------------------- program constants
\* head = new Node(-1): the value stored in the sentinel
SentinelValue == -1
\* nullptr
NULL == 0
\* the address of the sentinel node, fixed by the constructor
head == 1

Threads == 1..NumThreads
\* the integer arguments of the calls: below, equal to and above the
\* sentinel's value
Values == (SentinelValue - 1)..(SentinelValue + MaxVal)
OpKinds == {"insert", "remove", "contains"}
Variants == {"fg", "lazy"}

\* one node per insert call at most
MaxCalls == IF NumThreads * MaxOps > MaxSeqOps THEN NumThreads * MaxOps ELSE MaxSeqOps
MaxNodes == IF MaxPre + NumThreads * PreOps > MaxCalls
            THEN MaxPre + NumThreads * PreOps ELSE MaxCalls
Nodes == 1..(MaxNodes + 1)

VARIABLES
    variant,    \* which list class the run constructs
    value,      \* Node::value
    next,       \* Node::next
    removed,    \* Node::removed (MarkedList only; FALSE throughout for fg)
    m,          \* Node::m, the mutex: 0 when free, else the owning thread
    allocated,  \* nodes created by new
    freed,      \* nodes destroyed by delete
    pc,         \* each thread's position
    op,         \* the call a thread is running
    val,        \* its argument 'val'
    pred,       \* local 'pred'
    curr,       \* local 'curr'
    nxt,        \* local 'next' of the lock-coupling loops
    predLock,   \* the mutex predLock / lockPred owns (NULL: owns none)
    currLock,   \* the mutex currLock / lockCurr owns (NULL: owns none)
    result,     \* the value the call returns
    opsLeft,    \* calls the thread still has to issue
    retried,    \* history: the thread's latest call failed a validation
    abs,        \* history: the sequential multiset, changed at linearization points
    expect,     \* history: what the sequential multiset answered at the call's point
    insDone,    \* history: insert(v) calls that returned, per v
    remTrue,    \* history: remove(v) calls that returned true, per v
    started,    \* history: the running fg calls, in the order they locked the sentinel
    locked,     \* history: the nodes each running fg call has locked so far
    dirty       \* history: another thread changed the list during the thread's attempt

vars == <<variant, value, next, removed, m, allocated, freed, pc, op, val, pred,
          curr, nxt, predLock, currLock, result, opsLeft, retried, abs, expect,
          insDone, remTrue, started, locked, dirty>>

heapVars == <<value, next, removed, allocated, freed>>
histVars == <<retried, abs, expect, insDone, remTrue>>

\* --------------------------------------------------------------- helpers
\* new Node(...): the model hands out the lowest unused address
NewNode == CHOOSE n \in Nodes \ allocated : \A k \in Nodes \ allocated : n <= k

\* a lock that never waits
CanLock_NoWait(n) == n \in Nodes

\* std::unique_lock<std::mutex>(n->m): blocks until the mutex is free
CanLock(n) == m[n] = 0

RECURSIVE ChainFrom(_, _)
\* the nodes met by following next from n, at most k of them
ChainFrom(n, k) ==
    IF n = NULL \/ k = 0 THEN <<>> ELSE <<n>> \o ChainFrom(next[n], k - 1)

\* the nodes after the sentinel, in chain order
Chain == ChainFrom(next[head], MaxNodes + 1)

\* printList: the values of the nodes after the sentinel that are not removed
RECURSIVE SnapshotOf(_)
SnapshotOf(s) ==
    IF s = <<>> THEN <<>>
    ELSE IF removed[Head(s)] THEN SnapshotOf(Tail(s))
         ELSE <<value[Head(s)]>> \o SnapshotOf(Tail(s))

Snapshot == SnapshotOf(Chain)

\* number of entries of sequence s equal to v
Count(s, v) == Cardinality({i \in 1..Len(s) : s[i] = v})

\* ------------------------------------------------------------------ Init
InitHeap ==
    /\ value = [n \in Nodes |-> SentinelValue]
    /\ next = [n \in Nodes |-> NULL]
    /\ removed = [n \in Nodes |-> FALSE]
    /\ m = [n \in Nodes |-> 0]
    /\ allocated = {head}
    /\ freed = {}

InitThreads ==
    /\ pc = [t \in Threads |-> "idle"]
    /\ op = [t \in Threads |-> "none"]
    /\ val = [t \in Threads |-> SentinelValue]
    /\ pred = [t \in Threads |-> NULL]
    /\ curr = [t \in Threads |-> NULL]
    /\ nxt = [t \in Threads |-> NULL]
    /\ predLock = [t \in Threads |-> NULL]
    /\ currLock = [t \in Threads |-> NULL]
    /\ result = [t \in Threads |-> FALSE]

InitHist ==
    /\ retried = [t \in Threads |-> FALSE]
    /\ abs = [v \in Values |-> 0]
    /\ expect = [t \in Threads |-> FALSE]
    /\ insDone = [v \in Values |-> 0]
    /\ remTrue = [v \in Values |-> 0]

InitObserved ==
    /\ started = <<>>
    /\ locked = [t \in Threads |-> {}]
    /\ dirty = [t \in Threads |-> FALSE]

\* several threads share one freshly constructed list
Init ==
    /\ variant \in Variants
    /\ InitHeap /\ InitThreads /\ InitHist /\ InitObserved
    /\ opsLeft = [t \in Threads |-> MaxOps]

\* one thread alone uses a freshly constructed list
SeqInit ==
    /\ variant \in Variants
    /\ InitHeap /\ InitThreads /\ InitHist /\ InitObserved
    /\ opsLeft = [t \in Threads |-> IF t = 1 THEN MaxSeqOps ELSE 0]

\* the heap after one thread has inserted the k values of vs, largest first:
\* every insert stops at the first node and links the new node there, so the
\* chain is k+1, k, ..., 2 and holds vs in chain order
PreHeap(k, vs) ==
    /\ value = [n \in Nodes |-> IF n \in 2..(k + 1) THEN vs[k + 2 - n] ELSE SentinelValue]
    /\ next = [n \in Nodes |-> IF n = head THEN (IF k > 0 THEN k + 1 ELSE NULL)
                                ELSE IF n \in 3..(k + 1) THEN n - 1 ELSE NULL]
    /\ removed = [n \in Nodes |-> FALSE]
    /\ m = [n \in Nodes |-> 0]
    /\ allocated = 1..(k + 1)
    /\ freed = {}

\* several threads, one call each, share a list that already holds up to
\* MaxPre values
PreInit ==
    /\ variant \in Variants
    /\ \E k \in 0..MaxPre : \E vs \in [1..k -> Values] :
          /\ \A i \in 1..(k - 1) : vs[i] <= vs[i + 1]
          /\ PreHeap(k, vs)
          /\ abs = [v \in Values |-> Cardinality({i \in 1..k : vs[i] = v})]
          /\ insDone = [v \in Values |-> Cardinality({i \in 1..k : vs[i] = v})]
    /\ InitThreads /\ InitObserved
    /\ retried = [t \in Threads |-> FALSE]
    /\ expect = [t \in Threads |-> FALSE]
    /\ remTrue = [v \in Values |-> 0]
    /\ opsLeft = [t \in Threads |-> PreOps]

\* ------------------------------------------------------ history
\* the step writes a next pointer or a removed flag
Mutates == next' # next \/ removed' # removed
\* a MarkedList attempt between its first read of head->next and its validation
InAttempt(u) == pc[u] \in {"lzTrav", "lzLockPred", "lzLockCurr", "lzValidate"}
FailsValidation(t) == pc[t] = "lzValidate" /\ pc'[t] \in {"lzContCurr", "lzContPred"}

\* the history of the step thread t takes, part of every action: the order in which the running
\* fg calls locked the sentinel and the nodes each has locked; for the lazy
\* list, whether another thread changed the list during an attempt
Observe(t) ==
    /\ started' = IF variant = "fg" /\ pc[t] = "fgLockHead" /\ pc'[t] # pc[t]
                  THEN Append(SelectSeq(started, LAMBDA u : u # t), t)
                  ELSE IF pc'[t] = "idle"
                       THEN SelectSeq(started, LAMBDA u : u # t)
                       ELSE started
    /\ locked' = IF variant = "fg"
                 THEN [locked EXCEPT ![t] =
                          IF pc'[t] = "idle" THEN {}
                          ELSE @ \cup {n \in Nodes : m'[n] = t /\ m[n] # t}]
                 ELSE locked
    /\ dirty' = [u \in Threads |->
                    IF u = t
                    THEN /\ dirty[t] /\ InAttempt(t)
                         /\ pc'[t] \in {"lzTrav", "lzLockPred", "lzLockCurr", "lzValidate"}
                    ELSE dirty[u] \/ (Mutates /\ InAttempt(u))]

\* ------------------------------------------------- a thread issues a call
FirstPc == IF variant = "fg" THEN "fgLockHead" ELSE "lzBegin"

Invoke(t) ==
    /\ pc[t] = "idle"
    /\ opsLeft[t] > 0
    /\ \E o \in OpKinds, v \in Values :
          /\ op' = [op EXCEPT ![t] = o]
          /\ val' = [val EXCEPT ![t] = v]
    /\ pc' = [pc EXCEPT ![t] = FirstPc]
    /\ opsLeft' = [opsLeft EXCEPT ![t] = @ - 1]
    /\ retried' = [retried EXCEPT ![t] = FALSE]
    /\ UNCHANGED <<variant, heapVars, m, pred, curr, nxt, predLock, currLock,
                   result, abs, expect, insDone, remTrue>>
    /\ Observe(t)

\* the call returns: the locals go out of scope
Return(t) ==
    /\ pc[t] = "ret"
    /\ pc' = [pc EXCEPT ![t] = "idle"]
    /\ insDone' = IF op[t] = "insert"
                  THEN [insDone EXCEPT ![val[t]] = @ + 1] ELSE insDone
    /\ remTrue' = IF op[t] = "remove" /\ result[t]
                  THEN [remTrue EXCEPT ![val[t]] = @ + 1] ELSE remTrue
    /\ op' = [op EXCEPT ![t] = "none"]
    /\ val' = [val EXCEPT ![t] = SentinelValue]
    /\ pred' = [pred EXCEPT ![t] = NULL]
    /\ curr' = [curr EXCEPT ![t] = NULL]
    /\ nxt' = [nxt EXCEPT ![t] = NULL]
    /\ result' = [result EXCEPT ![t] = FALSE]
    /\ expect' = [expect EXCEPT ![t] = FALSE]
    /\ UNCHANGED <<variant, heapVars, m, predLock, currLock, opsLeft, retried,
                   abs>>
    /\ Observe(t)

\* ------------------------------------------------ the sequential multiset
\* what the call of thread t does to the multiset at its linearization point
AbsApply(t) ==
    /\ abs' = CASE op[t] = "insert" -> [abs EXCEPT ![val[t]] = @ + 1]
                [] op[t] = "remove" /\ abs[val[t]] > 0 -> [abs EXCEPT ![val[t]] = @ - 1]
                [] OTHER -> abs
    /\ expect' = [expect EXCEPT ![t] = (op[t] # "insert" /\ abs[val[t]] > 0)]

\* ================================================================ fg =====
\* a traversal that starts without taking the sentinel's mutex
FgLockHead_NoLock(t) ==
    /\ pc[t] = "fgLockHead"
    /\ pred' = [pred EXCEPT ![t] = head]
    /\ curr' = [curr EXCEPT ![t] = next[head]]
    /\ pc' = [pc EXCEPT ![t] = "fgLockCurr"]
    /\ UNCHANGED <<variant, heapVars, m, op, val, nxt, predLock, currLock, result,
                   opsLeft, histVars>>
    /\ Observe(t)

\* FineGrainedList: lines 33-36, 73-76, 116-119
\* pred = head; lock pred->m; curr = pred->next (read under pred's lock)
FgLockHead(t) ==
    /\ pc[t] = "fgLockHead"
    /\ CanLock(head)
    /\ m' = [m EXCEPT ![head] = t]
    /\ pred' = [pred EXCEPT ![t] = head]
    /\ predLock' = [predLock EXCEPT ![t] = head]
    /\ curr' = [curr EXCEPT ![t] = next[head]]
    /\ pc' = [pc EXCEPT ![t] = "fgLockCurr"]
    /\ UNCHANGED <<variant, heapVars, op, val, nxt, currLock, result, opsLeft,
                   histVars>>
    /\ Observe(t)

\* a traversal that does not lock the first successor
FgLockCurr_NoLock(t) ==
    /\ pc[t] = "fgLockCurr"
    /\ pc' = [pc EXCEPT ![t] = "fgLoop"]
    /\ UNCHANGED <<variant, heapVars, m, op, val, pred, curr, nxt, predLock, currLock,
                   result, opsLeft, histVars>>
    /\ Observe(t)

\* lines 37-40, 77-80, 120-123: if (curr) lock curr->m
FgLockCurr(t) ==
    /\ pc[t] = "fgLockCurr"
    /\ IF curr[t] # NULL
       THEN /\ CanLock(curr[t])
            /\ m' = [m EXCEPT ![curr[t]] = t]
            /\ currLock' = [currLock EXCEPT ![t] = curr[t]]
       ELSE UNCHANGED <<m, currLock>>
    /\ pc' = [pc EXCEPT ![t] = "fgLoop"]
    /\ UNCHANGED <<variant, heapVars, op, val, pred, curr, nxt, predLock, result,
                   opsLeft, histVars>>
    /\ Observe(t)

\* a traversal that also steps over the nodes equal to val
FgLoopCond_LessEq(t) == curr[t] # NULL /\ value[curr[t]] <= val[t]

\* a traversal that runs to the end of the list
FgLoopCond_ToEnd(t) == curr[t] # NULL /\ val[t] \in Values

\* the loop condition: while (curr && curr->value < val)
FgLoopCond(t) == curr[t] # NULL /\ value[curr[t]] < val[t]

\* an advance that lets go of both locks before it takes the next one
FgLoop_UnlockAll(t) ==
    /\ pc[t] = "fgLoop"
    /\ IF FgLoopCond(t)
       THEN /\ m' = [m EXCEPT ![predLock[t]] = 0, ![currLock[t]] = 0]
            /\ pred' = [pred EXCEPT ![t] = curr[t]]
            /\ predLock' = [predLock EXCEPT ![t] = NULL]
            /\ currLock' = [currLock EXCEPT ![t] = NULL]
            /\ nxt' = [nxt EXCEPT ![t] = next[curr[t]]]
            /\ pc' = [pc EXCEPT ![t] = "fgLockNext"]
       ELSE /\ pc' = [pc EXCEPT ![t] = "fgAct"]
            /\ UNCHANGED <<m, pred, predLock, currLock, nxt>>
    /\ UNCHANGED <<variant, heapVars, op, val, curr, result, opsLeft, histVars>>
    /\ Observe(t)

\* an advance that takes the new predecessor itself for the next node
FgLoop_NextIsPred(t) ==
    /\ pc[t] = "fgLoop"
    /\ IF FgLoopCond(t)
       THEN /\ m' = [m EXCEPT ![predLock[t]] = 0]
            /\ pred' = [pred EXCEPT ![t] = curr[t]]
            /\ predLock' = [predLock EXCEPT ![t] = currLock[t]]
            /\ currLock' = [currLock EXCEPT ![t] = NULL]
            /\ nxt' = [nxt EXCEPT ![t] = curr[t]]
            /\ pc' = [pc EXCEPT ![t] = "fgLockNext"]
       ELSE /\ pc' = [pc EXCEPT ![t] = "fgAct"]
            /\ UNCHANGED <<m, pred, predLock, currLock, nxt>>
    /\ UNCHANGED <<variant, heapVars, op, val, curr, result, opsLeft, histVars>>
    /\ Observe(t)

\* lines 43-55, 82-87, 125-130: the loop test; when it holds, unlock the old
\* predecessor, pred = curr, predLock = move(currLock), next = pred->next
FgLoop(t) ==
    /\ pc[t] = "fgLoop"
    /\ IF FgLoopCond(t)
       THEN /\ m' = [m EXCEPT ![predLock[t]] = 0]
            /\ pred' = [pred EXCEPT ![t] = curr[t]]
            /\ predLock' = [predLock EXCEPT ![t] = currLock[t]]
            /\ currLock' = [currLock EXCEPT ![t] = NULL]
            /\ nxt' = [nxt EXCEPT ![t] = next[curr[t]]]
            /\ pc' = [pc EXCEPT ![t] = "fgLockNext"]
       ELSE /\ pc' = [pc EXCEPT ![t] = "fgAct"]
            /\ UNCHANGED <<m, pred, predLock, currLock, nxt>>
    /\ UNCHANGED <<variant, heapVars, op, val, curr, result, opsLeft, histVars>>
    /\ Observe(t)

\* an advance that takes the next node's mutex whoever owns it
FgLockNext_NoWait(t) ==
    /\ pc[t] = "fgLockNext"
    /\ IF nxt[t] # NULL
       THEN /\ m' = [m EXCEPT ![nxt[t]] = t]
            /\ currLock' = [currLock EXCEPT ![t] = nxt[t]]
       ELSE UNCHANGED <<m, currLock>>
    /\ curr' = [curr EXCEPT ![t] = nxt[t]]
    /\ pc' = [pc EXCEPT ![t] = "fgLoop"]
    /\ UNCHANGED <<variant, heapVars, op, val, pred, nxt, predLock, result,
                   opsLeft, histVars>>
    /\ Observe(t)

\* an advance that moves on without locking the next node
FgLockNext_NoLock(t) ==
    /\ pc[t] = "fgLockNext"
    /\ curr' = [curr EXCEPT ![t] = nxt[t]]
    /\ pc' = [pc EXCEPT ![t] = "fgLoop"]
    /\ UNCHANGED <<variant, heapVars, m, op, val, pred, nxt, predLock, currLock,
                   result, opsLeft, histVars>>
    /\ Observe(t)

\* lines 56-62, 88-93, 131-136: lock next->m if next exists; curr = next
FgLockNext(t) ==
    /\ pc[t] = "fgLockNext"
    /\ IF nxt[t] # NULL
       THEN /\ CanLock(nxt[t])
            /\ m' = [m EXCEPT ![nxt[t]] = t]
            /\ currLock' = [currLock EXCEPT ![t] = nxt[t]]
       ELSE UNCHANGED <<m, currLock>>
    /\ curr' = [curr EXCEPT ![t] = nxt[t]]
    /\ pc' = [pc EXCEPT ![t] = "fgLoop"]
    /\ UNCHANGED <<variant, heapVars, op, val, pred, nxt, predLock, result,
                   opsLeft, histVars>>
    /\ Observe(t)

\* a scope exit that releases nothing
FgExitPc_NoRelease(t) == IF pc[t] = "idle" THEN "idle" ELSE "ret"

\* where the scope exit starts: the destructors of currLock, then predLock
FgExitPc(t) ==
    IF currLock[t] # NULL THEN "fgRelCurr"
    ELSE IF predLock[t] # NULL THEN "fgRelPred" ELSE "ret"

\* lines 66-67: newNode = new Node(val, curr); pred->next = newNode
FgInsertAct(t) ==
    /\ pc[t] = "fgAct" /\ op[t] = "insert"
    /\ allocated' = allocated \cup {NewNode}
    /\ value' = [value EXCEPT ![NewNode] = val[t]]
    /\ next' = [next EXCEPT ![NewNode] = curr[t], ![pred[t]] = NewNode]
    /\ AbsApply(t)
    /\ pc' = [pc EXCEPT ![t] = FgExitPc(t)]
    /\ UNCHANGED <<variant, removed, freed, m, op, val, pred, curr, nxt, predLock,
                   currLock, result, opsLeft, retried, insDone, remTrue>>
    /\ Observe(t)

\* a test that takes any successor for a match
FgMatch_AnyValue(t) == curr[t] # NULL /\ val[t] \in Values

\* line 97: if (curr && curr->value == val)
FgMatch(t) == curr[t] # NULL /\ value[curr[t]] = val[t]

\* a remove that deletes the node without unlinking it
FgRemoveAct_NoUnlink(t) ==
    /\ pc[t] = "fgAct" /\ op[t] = "remove"
    /\ IF FgMatch(t)
       THEN /\ pc' = [pc EXCEPT ![t] = "fgRmUnlockCurr"]
            /\ UNCHANGED result
       ELSE /\ result' = [result EXCEPT ![t] = FALSE]
            /\ pc' = [pc EXCEPT ![t] = FgExitPc(t)]
    /\ AbsApply(t)
    /\ UNCHANGED <<variant, value, next, removed, allocated, freed, m, op, val, pred,
                   curr, nxt, predLock, currLock, opsLeft, retried, insDone, remTrue>>
    /\ Observe(t)

\* lines 97-98 and 111: on a match pred->next = curr->next, else return false
FgRemoveAct(t) ==
    /\ pc[t] = "fgAct" /\ op[t] = "remove"
    /\ IF FgMatch(t)
       THEN /\ next' = [next EXCEPT ![pred[t]] = next[curr[t]]]
            /\ pc' = [pc EXCEPT ![t] = "fgRmUnlockCurr"]
            /\ UNCHANGED result
       ELSE /\ result' = [result EXCEPT ![t] = FALSE]
            /\ pc' = [pc EXCEPT ![t] = FgExitPc(t)]
            /\ UNCHANGED next
    /\ AbsApply(t)
    /\ UNCHANGED <<variant, value, removed, allocated, freed, m, op, val, pred,
                   curr, nxt, predLock, currLock, opsLeft, retried, insDone, remTrue>>
    /\ Observe(t)

\* lines 101-103: if (currLock.owns_lock()) currLock.unlock()
FgRmUnlockCurr(t) ==
    /\ pc[t] = "fgRmUnlockCurr"
    /\ IF currLock[t] # NULL
       THEN /\ m' = [m EXCEPT ![currLock[t]] = 0]
            /\ currLock' = [currLock EXCEPT ![t] = NULL]
       ELSE UNCHANGED <<m, currLock>>
    /\ pc' = [pc EXCEPT ![t] = "fgRmUnlockPred"]
    /\ UNCHANGED <<variant, heapVars, op, val, pred, curr, nxt, predLock, result,
                   opsLeft, histVars>>
    /\ Observe(t)

\* lines 104-106: if (predLock.owns_lock()) predLock.unlock()
FgRmUnlockPred(t) ==
    /\ pc[t] = "fgRmUnlockPred"
    /\ IF predLock[t] # NULL
       THEN /\ m' = [m EXCEPT ![predLock[t]] = 0]
            /\ predLock' = [predLock EXCEPT ![t] = NULL]
       ELSE UNCHANGED <<m, predLock>>
    /\ pc' = [pc EXCEPT ![t] = "fgDelete"]
    /\ UNCHANGED <<variant, heapVars, op, val, pred, curr, nxt, currLock, result,
                   opsLeft, histVars>>
    /\ Observe(t)

\* a remove that returns without deleting the node it unlinked
FgDelete_Leak(t) ==
    /\ pc[t] = "fgDelete"
    /\ result' = [result EXCEPT ![t] = TRUE]
    /\ pc' = [pc EXCEPT ![t] = FgExitPc(t)]
    /\ UNCHANGED <<variant, heapVars, m, op, val, pred,
                   curr, nxt, predLock, currLock, opsLeft, histVars>>
    /\ Observe(t)

\* lines 107-109: delete curr; return true
FgDelete(t) ==
    /\ pc[t] = "fgDelete"
    /\ freed' = freed \cup {curr[t]}
    /\ result' = [result EXCEPT ![t] = TRUE]
    /\ pc' = [pc EXCEPT ![t] = FgExitPc(t)]
    /\ UNCHANGED <<variant, value, next, removed, allocated, m, op, val, pred,
                   curr, nxt, predLock, currLock, opsLeft, histVars>>
    /\ Observe(t)

\* a contains that carries remove's unlinking line
FgContainsAct_Unlinks(t) ==
    /\ pc[t] = "fgAct" /\ op[t] = "contains"
    /\ result' = [result EXCEPT ![t] = FgMatch(t)]
    /\ next' = IF FgMatch(t) THEN [next EXCEPT ![pred[t]] = next[curr[t]]] ELSE next
    /\ AbsApply(t)
    /\ pc' = [pc EXCEPT ![t] = FgExitPc(t)]
    /\ UNCHANGED <<variant, value, removed, allocated, freed, m, op, val, pred, curr,
                   nxt, predLock, currLock, opsLeft, retried, insDone, remTrue>>
    /\ Observe(t)

\* lines 139-141: found = (curr && curr->value == val); return found
FgContainsAct(t) ==
    /\ pc[t] = "fgAct" /\ op[t] = "contains"
    /\ result' = [result EXCEPT ![t] = FgMatch(t)]
    /\ AbsApply(t)
    /\ pc' = [pc EXCEPT ![t] = FgExitPc(t)]
    /\ UNCHANGED <<variant, heapVars, m, op, val, pred, curr, nxt, predLock,
                   currLock, opsLeft, retried, insDone, remTrue>>
    /\ Observe(t)

\* scope exit (lines 69, 112, 142): ~currLock unlocks the mutex it owns
FgRelCurr(t) ==
    /\ pc[t] = "fgRelCurr"
    /\ m' = [m EXCEPT ![currLock[t]] = 0]
    /\ currLock' = [currLock EXCEPT ![t] = NULL]
    /\ pc' = [pc EXCEPT ![t] = IF predLock[t] # NULL THEN "fgRelPred" ELSE "ret"]
    /\ UNCHANGED <<variant, heapVars, op, val, pred, curr, nxt, predLock, result,
                   opsLeft, histVars>>
    /\ Observe(t)

\* a scope exit that leaves the predecessor's mutex locked
FgRelPred_Leak(t) ==
    /\ pc[t] = "fgRelPred"
    /\ predLock' = [predLock EXCEPT ![t] = NULL]
    /\ pc' = [pc EXCEPT ![t] = "ret"]
    /\ UNCHANGED <<variant, heapVars, m, op, val, pred, curr, nxt, currLock, result,
                   opsLeft, histVars>>
    /\ Observe(t)

\* scope exit: ~predLock unlocks the mutex it owns
FgRelPred(t) ==
    /\ pc[t] = "fgRelPred"
    /\ m' = [m EXCEPT ![predLock[t]] = 0]
    /\ predLock' = [predLock EXCEPT ![t] = NULL]
    /\ pc' = [pc EXCEPT ![t] = "ret"]
    /\ UNCHANGED <<variant, heapVars, op, val, pred, curr, nxt, currLock, result,
                   opsLeft, histVars>>
    /\ Observe(t)

FgStep(t) ==
    \/ FgLockHead(t)
    \/ FgLockCurr(t)
    \/ FgLoop(t)
    \/ FgLockNext(t)
    \/ FgInsertAct(t)
    \/ FgRemoveAct(t)
    \/ FgRmUnlockCurr(t)
    \/ FgRmUnlockPred(t)
    \/ FgDelete(t)
    \/ FgContainsAct(t)
    \/ FgRelCurr(t)
    \/ FgRelPred(t)

\* ============================================================== lazy =====
\* a traversal that starts on the sentinel itself
LzBegin_FromHead(t) ==
    /\ pc[t] = "lzBegin"
    /\ pred' = [pred EXCEPT ![t] = head]
    /\ curr' = [curr EXCEPT ![t] = head]
    /\ pc' = [pc EXCEPT ![t] = "lzTrav"]
    /\ UNCHANGED <<variant, heapVars, m, op, val, nxt, predLock, currLock, result,
                   opsLeft, histVars>>
    /\ Observe(t)

\* MarkedList: lines 50-51, 84-85, 124-125: pred = head; curr = pred->next.
\* No lock is held: the read of head->next races with the locked writers, and
\* returns the pointer the field holds when the step is taken, so that both
\* orders of every such race are explored.
LzBegin(t) ==
    /\ pc[t] = "lzBegin"
    /\ pred' = [pred EXCEPT ![t] = head]
    /\ curr' = [curr EXCEPT ![t] = next[head]]
    /\ pc' = [pc EXCEPT ![t] = "lzTrav"]
    /\ UNCHANGED <<variant, heapVars, m, op, val, nxt, predLock, currLock, result,
                   opsLeft, histVars>>
    /\ Observe(t)

\* a traversal that stops at the first successor, whatever its value
LzLoopCond_Never(t) == curr[t] # NULL /\ value[curr[t]] < val[t] /\ FALSE

\* a traversal that also steps over the nodes equal to val
LzLoopCond_LessEq(t) == curr[t] # NULL /\ value[curr[t]] <= val[t]

\* the loop condition: while (curr && curr->value < val)
LzLoopCond(t) == curr[t] # NULL /\ value[curr[t]] < val[t]

\* lines 54-57, 88-91, 127-130: one turn of the unlocked traversal
\* (pred = curr; curr = curr->next, again a racing read), or its end
LzTrav(t) ==
    /\ pc[t] = "lzTrav"
    /\ IF LzLoopCond(t)
       THEN /\ pred' = [pred EXCEPT ![t] = curr[t]]
            /\ curr' = [curr EXCEPT ![t] = next[curr[t]]]
            /\ UNCHANGED pc
       ELSE /\ pc' = [pc EXCEPT ![t] = "lzLockPred"]
            /\ UNCHANGED <<pred, curr>>
    /\ UNCHANGED <<variant, heapVars, m, op, val, nxt, predLock, currLock, result,
                   opsLeft, histVars>>
    /\ Observe(t)

\* a thread that locks the successor before the predecessor
LzLockOrder_CurrFirst(t) ==
    IF curr[t] = NULL THEN <<pred[t], NULL>> ELSE <<curr[t], pred[t]>>

\* lines 60-65, 94-99, 133-139: the mutex lockPred takes, then the one
\* lockCurr takes (NULL: none)
LzLockOrder(t) == <<pred[t], curr[t]>>

\* lines 60, 94, 133: lockPred(pred->m)
LzLockPred(t) ==
    /\ pc[t] = "lzLockPred"
    /\ CanLock(LzLockOrder(t)[1])
    /\ m' = [m EXCEPT ![LzLockOrder(t)[1]] = t]
    /\ predLock' = [predLock EXCEPT ![t] = LzLockOrder(t)[1]]
    /\ pc' = [pc EXCEPT ![t] = "lzLockCurr"]
    /\ UNCHANGED <<variant, heapVars, op, val, pred, curr, nxt, currLock, result,
                   opsLeft, histVars>>
    /\ Observe(t)

\* lines 62-65, 96-99, 136-139: if (curr) lockCurr(curr->m)
LzLockCurr(t) ==
    /\ pc[t] = "lzLockCurr"
    /\ IF curr[t] # NULL
       THEN /\ CanLock(LzLockOrder(t)[2])
            /\ m' = [m EXCEPT ![LzLockOrder(t)[2]] = t]
            /\ currLock' = [currLock EXCEPT ![t] = LzLockOrder(t)[2]]
       ELSE UNCHANGED <<m, currLock>>
    /\ pc' = [pc EXCEPT ![t] = "lzValidate"]
    /\ UNCHANGED <<variant, heapVars, op, val, pred, curr, nxt, predLock, result,
                   opsLeft, histVars>>
    /\ Observe(t)

\* a validation that forgets to look at pred->removed
validate_NoPredFlag(p, c) ==
    /\ ~(c # NULL /\ removed[c])
    /\ next[p] = c

\* a validation that rejects a pair without a successor
validate_NullFails(p, c) ==
    /\ ~removed[p]
    /\ c # NULL /\ ~removed[c]
    /\ next[p] = c

\* a validation that accepts every pair
validate_Always(p, c) == p \in Nodes

\* a validation that checks the flags but not the link
validate_NoLink(p, c) ==
    /\ ~removed[p]
    /\ ~(c # NULL /\ removed[c])

\* lines 26-28: validate(pred, curr)
validate(p, c) ==
    /\ ~removed[p]
    /\ ~(c # NULL /\ removed[c])
    /\ next[p] = c

\* lines 68-71, 102-104, 142-144: if (!validate(pred, curr)) continue;
\* continue leaves the loop body's scope: lockCurr, then lockPred are released
LzValidate(t) ==
    /\ pc[t] = "lzValidate"
    /\ pc' = [pc EXCEPT ![t] =
                 IF validate(pred[t], curr[t]) THEN "lzAct"
                 ELSE IF currLock[t] # NULL THEN "lzContCurr" ELSE "lzContPred"]
    /\ retried' = [retried EXCEPT ![t] = @ \/ ~validate(pred[t], curr[t])]
    /\ UNCHANGED <<variant, heapVars, m, op, val, pred, curr, nxt, predLock,
                   currLock, result, opsLeft, abs, expect, insDone, remTrue>>
    /\ Observe(t)

\* where the return's scope exit starts
LzExitPc(t) == IF currLock[t] # NULL THEN "lzRelCurr" ELSE "lzRelPred"

\* an insert that builds the node as new Node(val), without its successor
LzInsertAct_NoSuccessor(t) ==
    /\ pc[t] = "lzAct" /\ op[t] = "insert"
    /\ allocated' = allocated \cup {NewNode}
    /\ value' = [value EXCEPT ![NewNode] = val[t]]
    /\ removed' = [removed EXCEPT ![NewNode] = FALSE]
    /\ next' = [next EXCEPT ![NewNode] = NULL, ![pred[t]] = NewNode]
    /\ AbsApply(t)
    /\ pc' = [pc EXCEPT ![t] = IF currLock[t] # NULL THEN "lzRelCurr" ELSE "lzRelPred"]
    /\ UNCHANGED <<variant, freed, m, op, val, pred, curr, nxt, predLock,
                   currLock, result, opsLeft, retried, insDone, remTrue>>
    /\ Observe(t)

\* lines 74-77: newNode = new Node(val, curr); pred->next = newNode; return
LzInsertAct(t) ==
    /\ pc[t] = "lzAct" /\ op[t] = "insert"
    /\ allocated' = allocated \cup {NewNode}
    /\ value' = [value EXCEPT ![NewNode] = val[t]]
    /\ removed' = [removed EXCEPT ![NewNode] = FALSE]
    /\ next' = [next EXCEPT ![NewNode] = curr[t], ![pred[t]] = NewNode]
    /\ AbsApply(t)
    /\ pc' = [pc EXCEPT ![t] = LzExitPc(t)]
    /\ UNCHANGED <<variant, freed, m, op, val, pred, curr, nxt, predLock,
                   currLock, result, opsLeft, retried, insDone, remTrue>>
    /\ Observe(t)

\* a test that only looks whether a successor exists
LzNoMatch_NullOnly(t) == curr[t] = NULL /\ val[t] \in Values

\* line 107: if (!curr || curr->value != val) return false
LzNoMatch(t) == curr[t] = NULL \/ value[curr[t]] # val[t]

\* a remove that unlinks the node and never sets its flag
LzRemoveAct_UnlinkFirst(t) ==
    /\ pc[t] = "lzAct" /\ op[t] = "remove"
    /\ IF LzNoMatch(t)
       THEN /\ result' = [result EXCEPT ![t] = FALSE]
            /\ pc' = [pc EXCEPT ![t] = LzExitPc(t)]
            /\ UNCHANGED next
       ELSE /\ next' = [next EXCEPT ![pred[t]] = next[curr[t]]]
            /\ pc' = [pc EXCEPT ![t] = "lzUnlink"]
            /\ UNCHANGED result
    /\ AbsApply(t)
    /\ UNCHANGED <<variant, value, removed, allocated, freed, m, op, val, pred, curr,
                   nxt, predLock, currLock, opsLeft, retried, insDone, remTrue>>
    /\ Observe(t)

\* lines 107-112: not found, or curr->removed = true
LzRemoveAct(t) ==
    /\ pc[t] = "lzAct" /\ op[t] = "remove"
    /\ IF LzNoMatch(t)
       THEN /\ result' = [result EXCEPT ![t] = FALSE]
            /\ pc' = [pc EXCEPT ![t] = LzExitPc(t)]
            /\ UNCHANGED removed
       ELSE /\ removed' = [removed EXCEPT ![curr[t]] = TRUE]
            /\ pc' = [pc EXCEPT ![t] = "lzUnlink"]
            /\ UNCHANGED result
    /\ AbsApply(t)
    /\ UNCHANGED <<variant, value, next, allocated, freed, m, op, val, pred, curr,
                   nxt, predLock, currLock, opsLeft, retried, insDone, remTrue>>
    /\ Observe(t)

\* a remove that marks its node and leaves it linked
LzUnlink_Skip(t) ==
    /\ pc[t] = "lzUnlink"
    /\ result' = [result EXCEPT ![t] = TRUE]
    /\ pc' = [pc EXCEPT ![t] = LzExitPc(t)]
    /\ UNCHANGED <<variant, heapVars, m, op, val, pred,
                   curr, nxt, predLock, currLock, opsLeft, histVars>>
    /\ Observe(t)

\* a remove that deletes the node it has just unlinked
LzUnlink_Frees(t) ==
    /\ pc[t] = "lzUnlink"
    /\ next' = [next EXCEPT ![pred[t]] = next[curr[t]]]
    /\ freed' = freed \cup {curr[t]}
    /\ result' = [result EXCEPT ![t] = TRUE]
    /\ pc' = [pc EXCEPT ![t] = LzExitPc(t)]
    /\ UNCHANGED <<variant, value, removed, allocated, m, op, val, pred,
                   curr, nxt, predLock, currLock, opsLeft, histVars>>
    /\ Observe(t)

\* lines 115-117: pred->next = curr->next; return true
LzUnlink(t) ==
    /\ pc[t] = "lzUnlink"
    /\ next' = [next EXCEPT ![pred[t]] = next[curr[t]]]
    /\ result' = [result EXCEPT ![t] = TRUE]
    /\ pc' = [pc EXCEPT ![t] = LzExitPc(t)]
    /\ UNCHANGED <<variant, value, removed, allocated, freed, m, op, val, pred,
                   curr, nxt, predLock, currLock, opsLeft, histVars>>
    /\ Observe(t)

\* line 147: return (curr && !curr->removed && curr->value == val)
LzFound(t) == curr[t] # NULL /\ ~removed[curr[t]] /\ value[curr[t]] = val[t]

LzContainsAct(t) ==
    /\ pc[t] = "lzAct" /\ op[t] = "contains"
    /\ result' = [result EXCEPT ![t] = LzFound(t)]
    /\ AbsApply(t)
    /\ pc' = [pc EXCEPT ![t] = LzExitPc(t)]
    /\ UNCHANGED <<variant, heapVars, m, op, val, pred, curr, nxt, predLock,
                   currLock, opsLeft, retried, insDone, remTrue>>
    /\ Observe(t)

\* ~lockCurr at the end of the loop body (continue) or at a return
LzRelCurr(t) ==
    /\ pc[t] \in {"lzRelCurr", "lzContCurr"}
    /\ m' = [m EXCEPT ![currLock[t]] = 0]
    /\ currLock' = [currLock EXCEPT ![t] = NULL]
    /\ pc' = [pc EXCEPT ![t] = IF pc[t] = "lzRelCurr" THEN "lzRelPred" ELSE "lzContPred"]
    /\ UNCHANGED <<variant, heapVars, op, val, pred, curr, nxt, predLock, result,
                   opsLeft, histVars>>
    /\ Observe(t)

\* a retry that locks the same stale pair again instead of traversing anew
LzRelPred_NoRestart(t) ==
    /\ pc[t] \in {"lzRelPred", "lzContPred"}
    /\ m' = [m EXCEPT ![predLock[t]] = 0]
    /\ predLock' = [predLock EXCEPT ![t] = NULL]
    /\ pc' = [pc EXCEPT ![t] = IF pc[t] = "lzRelPred" THEN "ret" ELSE "lzLockPred"]
    /\ UNCHANGED <<variant, heapVars, op, val, pred, curr, nxt, currLock, result,
                   opsLeft, histVars>>
    /\ Observe(t)

\* ~lockPred; after a continue the while (true) loop starts over
LzRelPred(t) ==
    /\ pc[t] \in {"lzRelPred", "lzContPred"}
    /\ m' = [m EXCEPT ![predLock[t]] = 0]
    /\ predLock' = [predLock EXCEPT ![t] = NULL]
    /\ pc' = [pc EXCEPT ![t] = IF pc[t] = "lzRelPred" THEN "ret" ELSE "lzBegin"]
    /\ UNCHANGED <<variant, heapVars, op, val, pred, curr, nxt, currLock, result,
                   opsLeft, histVars>>
    /\ Observe(t)

LzStep(t) ==
    \/ LzBegin(t)
    \/ LzTrav(t)
    \/ LzLockPred(t)
    \/ LzLockCurr(t)
    \/ LzValidate(t)
    \/ LzInsertAct(t)
    \/ LzRemoveAct(t)
    \/ LzUnlink(t)
    \/ LzContainsAct(t)
    \/ LzRelCurr(t)
    \/ LzRelPred(t)

Step(t) == Invoke(t) \/ FgStep(t) \/ LzStep(t) \/ Return(t)

Next == \E t \in Threads : Step(t)

\* threads running concurrently on either list
Spec == Init /\ [][Next]_vars

\* one thread alone on either list
SeqSpec == SeqInit /\ [][Next]_vars

\* threads running concurrently on a list that already holds values
PreSpec == PreInit /\ [][Next]_vars

\* the scheduler lets every thread that can take a step take one eventually
FairSpec == Spec /\ \A t \in Threads : WF_vars(Step(t))

\* ================================================================ claims
Returning(t) == pc[t] = "ret"
Quiescent == \A t \in Threads : pc[t] = "idle"
\* the sequential multiset holds exactly the values printList would print
AbsIsSnapshot == \A v \in Values : Count(Snapshot, v) = abs[v]
\* every returned result is the answer of the sequential multiset at the
\* call's linearization point
ResultsMatch == \A t \in Threads : Returning(t) /\ op[t] # "insert" => result[t] = expect[t]

\* C1: FineGrainedList is linearizable with respect to a sequential multiset:
\* every remove and contains returns what the multiset answers at one point
\* inside the call (the step taken at the stop point, both locks held), and
\* the list holds exactly the multiset's values.
C1_FgLinearizable == variant = "fg" => ResultsMatch /\ AbsIsSnapshot

\* a remove returns true while a contains of the same value by the other
\* thread is under way
C1_Witness ==
    /\ variant = "fg"
    /\ \E t, u \in Threads :
          /\ Returning(t) /\ op[t] = "remove" /\ result[t]
          /\ op[u] = "contains" /\ val[u] = val[t] /\ pc[u] = "fgLockNext"

\* C2: MarkedList is linearizable with respect to a sequential multiset, also
\* across failed validations: every remove and contains returns what the
\* multiset answers at one point inside the locked section of the call's
\* validated attempt, and the unmarked chain holds exactly the multiset's values.
C2_LazyLinearizable == variant = "lazy" => ResultsMatch /\ AbsIsSnapshot

\* a call that retried returns true
C2_Witness ==
    /\ variant = "lazy"
    /\ \E t \in Threads : Returning(t) /\ retried[t] /\ op[t] # "insert" /\ result[t]

\* C3: run by one thread from an empty list, contains(v) and remove(v) return
\* true iff more insert(v) calls have returned than remove(v) calls returned true.
C3_SequentialMembership ==
    \A t \in Threads :
        Returning(t) /\ op[t] # "insert" =>
            (result[t] <=> insDone[val[t]] > remTrue[val[t]])

\* after two inserts and a successful remove(v), contains(v) returns false
C3_Witness ==
    \E t \in Threads :
        /\ Returning(t) /\ op[t] = "contains" /\ ~result[t]
        /\ remTrue[val[t]] = 1 /\ insDone[val[t]] = 1
        /\ \E w \in Values : w # val[t] /\ insDone[w] = 1 /\ remTrue[w] = 0

\* values of a sequence of nodes
ValuesOf(s) == [i \in 1..Len(s) |-> value[s[i]]]
NonDecreasing(s) == \A i \in 1..(Len(s) - 1) : s[i] <= s[i + 1]

\* C4: in every reachable state the values of the nodes after the sentinel are
\* non-decreasing in chain order, and so is what printList prints.
C4_Sorted == NonDecreasing(ValuesOf(Chain)) /\ NonDecreasing(Snapshot)

\* three nodes, two of them equal, while a thread is inside an insert
C4_Witness ==
    /\ Len(Chain) = 3
    /\ \E i \in 1..2 : value[Chain[i]] = value[Chain[i + 1]]
    /\ \E i \in 1..2 : value[Chain[i]] < value[Chain[i + 1]]
    /\ \E t \in Threads : op[t] = "insert" /\ pc[t] \in {"fgAct", "lzAct"}

\* the node whose mutex thread t is about to lock (NULL: none)
WantedLock(t) ==
    CASE pc[t] = "fgLockHead" -> head
      [] pc[t] = "fgLockCurr" -> curr[t]
      [] pc[t] = "fgLockNext" -> nxt[t]
      [] pc[t] = "lzLockPred" -> LzLockOrder(t)[1]
      [] pc[t] = "lzLockCurr" -> LzLockOrder(t)[2]
      [] OTHER -> NULL
\* t waits for a mutex that is held
Blocked(t) == WantedLock(t) # NULL /\ m[WantedLock(t)] # 0
\* a set of threads each waiting for a mutex held by a thread of the set
WaitCycle ==
    \E S \in SUBSET Threads :
        /\ S # {}
        /\ \A t \in S : Blocked(t) /\ m[WantedLock(t)] \in S
HeldBy(t) == {n \in Nodes : m[n] = t}
AllDone == \A t \in Threads : pc[t] = "idle" /\ opsLeft[t] = 0

\* C5: FineGrainedList never reaches a set of threads each blocked on a node
\* lock held by another thread of the set, and under fair scheduling every
\* call returns.
C5_FgDeadlockFree ==
    /\ [](variant = "fg" => ~WaitCycle)
    /\ \A t \in Threads : (variant = "fg" /\ pc[t] # "idle") ~> (pc[t] = "idle")

\* a thread waits for the lock of a node that another thread, itself waiting
\* for a lock further on, holds
C5_Witness ==
    /\ variant = "fg"
    /\ \E t, u \in Threads :
          /\ t # u /\ Blocked(t) /\ m[WantedLock(t)] = u
          /\ pc[u] = "fgLockNext" /\ nxt[u] # NULL

\* C6: with inserting and removing threads on one MarkedList, under fair
\* scheduling every thread finishes all its calls; no set of threads ever
\* waits in a cycle for node locks.
C6_LazyTerminates ==
    /\ [](variant = "lazy" => ~WaitCycle)
    /\ (variant = "lazy") ~> AllDone

\* all threads have finished, inserts and successful removes of one value
\* among their calls, the last call of one of them after a failed validation
C6_Witness ==
    /\ variant = "lazy" /\ AllDone
    /\ \E t \in Threads : retried[t]
    /\ \E v \in Values : insDone[v] = 2 /\ remTrue[v] = 2

\* C7: once all calls have returned, the values reachable from the sentinel
\* (and not marked) are, with multiplicity, those whose insert returned minus
\* one v for each remove(v) that returned true.
C7_Conservation ==
    Quiescent => \A v \in Values : Count(Snapshot, v) = insDone[v] - remTrue[v]

\* all calls have returned; a value was inserted twice and removed once
C7_Witness ==
    /\ AllDone
    /\ \E v \in Values : insDone[v] = 2 /\ remTrue[v] = 1 /\ Count(Snapshot, v) = 1

\* C8: a thread that returns from a call holds no node lock, and neither does
\* a MarkedList thread that starts its traversal over after a failed validation.
C8_LocksReleased ==
    \A t \in Threads :
        pc[t] \in {"ret", "idle", "lzBegin", "lzTrav", "lzLockPred"} =>
            HeldBy(t) = {} /\ predLock[t] = NULL /\ currLock[t] = NULL

\* a thread is back at the sentinel after a failed validation of a pair of
\* two nodes, while the other thread holds locks
C8_Witness ==
    \E t, u \in Threads :
        /\ pc[t] = "lzBegin" /\ retried[t] /\ curr[t] # NULL
        /\ HeldBy(u) # {}

\* sequence s without its entries equal to x
Without(s, x) == SelectSeq(s, LAMBDA y : y # x)
\* sequence s without its first entry equal to x
RemoveOne(s, x) ==
    IF \E i \in 1..Len(s) : s[i] = x
    THEN LET i == CHOOSE j \in 1..Len(s) : s[j] = x /\ \A k \in 1..(j - 1) : s[k] # x
         IN SubSeq(s, 1, i - 1) \o SubSeq(s, i + 1, Len(s))
    ELSE s
InSeq(s, x) == \E i \in 1..Len(s) : s[i] = x
\* a step taken by thread t
StepOf(t) == pc'[t] # pc[t] \/ pred'[t] # pred[t] \/ curr'[t] # curr[t]
\* the step by which thread t's remove decides
RemoveDecides(t) == pc[t] \in {"fgAct", "lzAct"} /\ op[t] = "remove" /\ pc'[t] # pc[t]
RemoveFound(t) == RemoveDecides(t) /\ pc'[t] \in {"fgRmUnlockCurr", "lzUnlink"}

\* C9: a remove(v) that finds its node takes exactly one node of value v out
\* (FineGrainedList: unlinks it, later frees it; MarkedList: marks it, then
\* unlinks it), the other elements and their order staying as they are, and
\* returns true; a remove(v) that returns false changes no next pointer, no
\* removed flag and frees nothing, and no node of value v is present when it
\* decides.
C9_RemoveEffect ==
    [][\A t \in Threads :
        /\ RemoveFound(t) =>
              /\ value[curr[t]] = val[t] /\ InSeq(Chain, curr[t]) /\ ~removed[curr[t]]
              /\ Snapshot' = RemoveOne(Snapshot, val[t])
              /\ Count(Snapshot', val[t]) = Count(Snapshot, val[t]) - 1
              /\ UNCHANGED <<value, allocated, freed>>
              /\ variant = "fg" => Chain' = Without(Chain, curr[t]) /\ UNCHANGED removed
              /\ variant = "lazy" =>
                    /\ removed' = [removed EXCEPT ![curr[t]] = TRUE]
                    /\ UNCHANGED next
        /\ pc[t] = "lzUnlink" /\ pc'[t] # pc[t] =>
              /\ Chain' = Without(Chain, curr[t]) /\ InSeq(Chain, curr[t])
              /\ Snapshot' = Snapshot /\ result'[t]
              /\ UNCHANGED <<value, removed, allocated, freed>>
        /\ pc[t] = "fgDelete" /\ pc'[t] # pc[t] =>
              /\ freed' = freed \cup {curr[t]} /\ curr[t] \notin freed
              /\ ~InSeq(Chain, curr[t]) /\ result'[t]
              /\ UNCHANGED <<value, next, removed, allocated>>
        /\ RemoveDecides(t) /\ ~RemoveFound(t) =>
              /\ ~result'[t] /\ pc'[t] \notin {"fgDelete", "lzUnlink"}
              /\ Count(Snapshot, val[t]) = 0
              /\ UNCHANGED heapVars
        /\ StepOf(t) /\ op[t] = "remove" /\ ~RemoveFound(t)
              /\ pc[t] \notin {"lzUnlink", "fgDelete"} => UNCHANGED heapVars
      ]_vars

\* a remove(v) has taken one of two nodes of value v out and returns true
C9_Witness ==
    \E t \in Threads :
        /\ Returning(t) /\ op[t] = "remove" /\ result[t]
        /\ Count(Snapshot, val[t]) = 1 /\ insDone[val[t]] = 2

\* index of the first node of s whose value is >= v, Len(s) + 1 if there is none
FirstGE(s, v) ==
    IF \E i \in 1..Len(s) : value[s[i]] >= v
    THEN CHOOSE i \in 1..Len(s) :
            value[s[i]] >= v /\ \A k \in 1..(i - 1) : value[s[k]] < v
    ELSE Len(s) + 1
InsertAt(s, i, x) == SubSeq(s, 1, i - 1) \o <<x>> \o SubSeq(s, i, Len(s))
\* the step by which thread t's insert links its node
InsertLinks(t) == pc[t] \in {"fgAct", "lzAct"} /\ op[t] = "insert" /\ pc'[t] # pc[t]

\* C10: insert(v) links exactly one new node of value v, right before the
\* first node whose value is >= v or at the tail, whether or not v is already
\* there, every other element staying where it is; and under fair scheduling
\* every insert returns.
C10_InsertEffect ==
    /\ [][\A t \in Threads :
            InsertLinks(t) =>
                \E n \in Nodes \ allocated :
                    /\ allocated' = allocated \cup {n}
                    /\ value' = [value EXCEPT ![n] = val[t]]
                    /\ ~removed'[n] /\ removed' = [removed EXCEPT ![n] = FALSE]
                    /\ Chain' = InsertAt(Chain, FirstGE(Chain, val[t]), n)
                    /\ freed' = freed
         ]_vars
    /\ \A t \in Threads : (op[t] = "insert") ~> (Returning(t) /\ op[t] = "insert")

\* an insert(v) returns with two nodes of value v next to each other, between
\* a smaller and a larger one
C10_Witness ==
    \E t \in Threads :
        /\ Returning(t) /\ op[t] = "insert"
        /\ Len(Chain) = 4
        /\ value[Chain[1]] < val[t] /\ value[Chain[2]] = val[t]
        /\ value[Chain[3]] = val[t] /\ value[Chain[4]] > val[t]

\* the nodes whose mutex changes hands in the step
LockChanges == {n \in Nodes : m'[n] # m[n]}

\* C11: no step of a contains call changes a next pointer, a removed flag, or
\* the allocated or freed nodes; the only shared state it changes is mutexes,
\* which it takes free and gives back free, and it holds none when it returns.
C11_ContainsReadOnly ==
    [][\A t \in Threads :
          op[t] = "contains" /\ StepOf(t) =>
              /\ UNCHANGED heapVars
              /\ \A n \in LockChanges :
                    \/ m[n] = 0 /\ m'[n] = t
                    \/ m[n] = t /\ m'[n] = 0
              /\ pc'[t] = "ret" => \A n \in Nodes : m'[n] # t
      ]_vars

\* a contains that had to retry returns false while the other thread is
\* inside a call
C11_Witness ==
    \E t, u \in Threads :
        /\ Returning(t) /\ op[t] = "contains" /\ retried[t] /\ ~result[t]
        /\ pc[u] \notin {"idle", "ret"}

\* C12: MarkedList's remove sets the removed flag of its node, the node still
\* linked, before it changes the predecessor's next pointer; a flag once set
\* stays set and the node of a remove that has returned true is marked and
\* unlinked; contains returns true only for a node that is, while contains
\* holds its lock and its predecessor's, in the chain and not marked.
C12_LogicalThenPhysical ==
    [][/\ \A n \in Nodes : removed[n] => removed'[n]
       /\ \A n \in Nodes : removed[n] /\ ~InSeq(Chain, n) => ~InSeq(Chain', n)
       /\ \A t \in Threads :
            /\ pc[t] = "lzAct" /\ pc'[t] = "lzUnlink" =>
                  /\ removed'[curr[t]] /\ ~removed[curr[t]]
                  /\ UNCHANGED next /\ InSeq(Chain, curr[t])
            /\ pc[t] = "lzUnlink" /\ pc'[t] # pc[t] =>
                  /\ removed[curr[t]]
                  /\ next'[pred[t]] = next[curr[t]]
                  /\ ~InSeq(Chain', curr[t])
            /\ variant = "lazy" /\ Returning(t) /\ op[t] = "remove" /\ result[t] =>
                  removed[curr[t]] /\ ~InSeq(Chain, curr[t])
            /\ pc[t] = "lzAct" /\ op[t] = "contains" /\ pc'[t] # pc[t] /\ result'[t] =>
                  /\ InSeq(Chain, curr[t]) /\ ~removed[curr[t]]
                  /\ value[curr[t]] = val[t]
                  /\ m[curr[t]] = t /\ m[pred[t]] = t
      ]_vars

\* a contains(v) that went through a node which a remove(v) has meanwhile
\* marked and unlinked returns true for another node of value v
C12_Witness ==
    \E t \in Threads :
        /\ variant = "lazy" /\ Returning(t) /\ op[t] = "contains" /\ result[t]
        /\ retried[t] /\ remTrue[val[t]] = 1
        /\ \E n \in Nodes : removed[n] /\ value[n] = val[t]

\* the pointers a thread may still dereference
PointersOf(t) == {pred[t], curr[t], nxt[t], predLock[t], currLock[t]} \ {NULL}

\* C13: no call on a MarkedList frees a node: nothing is ever deleted, what
\* was allocated stays allocated, and every pointer a thread holds, stale or
\* not, is to an allocated node.
C13_LazyNeverFrees ==
    [][variant = "lazy" =>
          /\ freed = {} /\ freed' = {}
          /\ allocated \subseteq allocated'
          /\ \A t \in Threads : PointersOf(t) \subseteq allocated
      ]_vars

\* a thread locks and validates against a node that has been removed
C13_Witness ==
    \E t \in Threads :
        /\ variant = "lazy" /\ pc[t] = "lzValidate"
        /\ removed[pred[t]] /\ ~InSeq(Chain, pred[t]) /\ m[pred[t]] = t

\* the sentinel is where construction put it
SentinelIntact ==
    /\ value[head] = SentinelValue
    /\ head \in allocated /\ head \notin freed /\ ~removed[head]
    /\ \A n \in Nodes : next[n] # head

\* C14: for every argument, SentinelValue and smaller values included, no
\* call matches the sentinel: the node a traversal examines is never the
\* sentinel, a remove or contains returns true only for an element node of
\* the argument's value and only when the multiset holds that value, and the
\* sentinel is never unlinked, marked or freed.
C14_SentinelImmunity ==
    /\ SentinelIntact
    /\ \A t \in Threads :
        /\ curr[t] # head /\ currLock[t] # head /\ nxt[t] # head
        /\ Returning(t) /\ op[t] # "insert" /\ result[t] =>
              /\ expect[t]
              /\ curr[t] \in allocated \ {head}
              /\ value[curr[t]] = val[t]

\* remove(SentinelValue) returns false on a list that holds a smaller and a
\* larger value
C14_Witness ==
    \E t \in Threads :
        /\ Returning(t) /\ op[t] = "remove" /\ val[t] = SentinelValue /\ ~result[t]
        /\ ValuesOf(Chain) = <<SentinelValue - 1, SentinelValue + 1>>

\* C15: run by one thread from an empty set, both variants answer every
\* remove and contains as the sequential multiset of the calls made so far
\* does, and after every call hold that multiset's values in non-decreasing
\* order after the sentinel - results and contents that depend on the calls
\* alone, hence the same in FineGrainedList and MarkedList.
C15_SameContract ==
    \A t \in Threads :
        Returning(t) =>
            /\ op[t] # "insert" => result[t] = expect[t]
            /\ NonDecreasing(ValuesOf(Chain))
            /\ \A v \in Values : Count(ValuesOf(Chain), v) = abs[v]
            /\ \A n \in Nodes : InSeq(Chain, n) => n \in allocated \ freed /\ ~removed[n]

\* the fourth call, a remove, returns true and leaves two equal values
C15_Witness ==
    \E t \in Threads :
        /\ Returning(t) /\ op[t] = "remove" /\ result[t] /\ opsLeft[t] = 0
        /\ ValuesOf(Chain) = <<val[t], val[t]>>

\* thread t's traversal is under way: both first locks taken, nothing
\* released for the scope exit yet
FgTraversing(t) == variant = "fg" /\ pc[t] \in {"fgLoop", "fgLockNext", "fgAct"}

\* C16 as stated: while a FineGrainedList traversal is under way and its
\* predecessor has a successor, the thread holds two node locks.
C16_TwoLocksAlways ==
    \A t \in Threads :
        FgTraversing(t) /\ next[pred[t]] # NULL => Cardinality(HeldBy(t)) = 2

\* C16, amended: from the sentinel's lock to the scope exit a FineGrainedList
\* thread holds one or two locks, those of pred and of curr when curr is
\* locked, pred in the chain and curr its successor; an advance first
\* releases the old predecessor's lock, keeping the lock of the node it moves
\* onto, and only then takes the next node's lock; where the operation acts
\* it holds pred's lock and curr's, if curr exists.
C16_LockCoupling ==
    [][\A t \in Threads : variant = "fg" =>
          /\ pc[t] = "fgLockCurr" => HeldBy(t) = {head} /\ pred[t] = head
          /\ pc[t] \in {"fgLoop", "fgAct"} =>
                /\ HeldBy(t) = {pred[t], curr[t]} \ {NULL}
                /\ next[pred[t]] = curr[t]
                /\ pred[t] = head \/ InSeq(Chain, pred[t])
          /\ pc[t] = "fgLockNext" =>
                /\ HeldBy(t) = {pred[t]}
                /\ next[pred[t]] = nxt[t]
                /\ InSeq(Chain, pred[t])
          /\ pc[t] = "fgLoop" /\ pc'[t] = "fgLockNext" =>
                /\ pred'[t] = curr[t]
                /\ m[pred[t]] = t /\ m'[pred[t]] = 0
                /\ m[curr[t]] = t /\ m'[curr[t]] = t
                /\ \A n \in Nodes : m'[n] = t => m[n] = t
          /\ pc[t] = "fgLockNext" /\ pc'[t] = "fgLoop" =>
                /\ curr'[t] = nxt[t]
                /\ m'[pred[t]] = t
                /\ nxt[t] # NULL => m[nxt[t]] = 0 /\ m'[nxt[t]] = t
      ]_vars

\* in the middle of an advance: the old predecessor released, the next node
\* there but not locked yet
C16_Witness ==
    \E t \in Threads :
        /\ variant = "fg" /\ pc[t] = "fgLockNext" /\ nxt[t] # NULL
        /\ HeldBy(t) = {pred[t]} /\ pred[t] # head

\* list order: the sentinel first, then by value, a node inserted later
\* (higher address) before the earlier nodes of its value
ListBefore(a, b) ==
    /\ a # b /\ b # head
    /\ \/ a = head
       \/ value[a] < value[b]
       \/ value[a] = value[b] /\ a > b

\* C17: the chain is in list order, and whenever a thread takes a node's
\* lock while holding another's, every node it holds lies strictly before
\* the node it takes, stale or removed nodes included.
C17_AscendingLockOrder ==
    [][/\ \A i, j \in 1..Len(Chain) : i < j => ListBefore(Chain[i], Chain[j])
       /\ \A t \in Threads : \A n \in Nodes :
            m'[n] = t /\ m[n] # t =>
                \A k \in HeldBy(t) : ListBefore(k, n) /\ ~ListBefore(n, k)
      ]_vars

\* a lazy thread holds the locks of a pair whose predecessor has meanwhile
\* been removed
C17_Witness ==
    \E t \in Threads :
        /\ variant = "lazy" /\ pc[t] = "lzValidate"
        /\ removed[pred[t]] /\ curr[t] # NULL
        /\ m[pred[t]] = t /\ m[curr[t]] = t

\* thread t takes the lock of node n in the step
Acquires(t, n) == m'[n] = t /\ m[n] # t

\* C18 as stated: a lock taken by a thread that holds none is the sentinel's.
C18_SentinelLockFirst ==
    [][\A t \in Threads : \A n \in Nodes :
          Acquires(t, n) /\ HeldBy(t) = {} => n = head
      ]_vars

\* C18, amended: the first lock a FineGrainedList call takes is the
\* sentinel's; the first lock a MarkedList attempt takes is that of the
\* predecessor its unlocked traversal chose, the sentinel only when the
\* traversal stopped at the first position, otherwise a node of a value
\* below the argument.
C18_FirstLock ==
    [][\A t \in Threads : \A n \in Nodes :
          Acquires(t, n) /\ HeldBy(t) = {} =>
              /\ variant = "fg" => n = head /\ pc[t] = "fgLockHead"
              /\ variant = "lazy" =>
                    /\ n = pred[t] /\ pc[t] = "lzLockPred"
                    /\ n # head => value[n] < val[t]
                    /\ ~LzLoopCond(t)
      ]_vars

\* a MarkedList thread holds one lock, and it is not the sentinel's
C18_Witness ==
    \E t \in Threads :
        /\ variant = "lazy" /\ pc[t] = "lzLockCurr"
        /\ pred[t] # head /\ HeldBy(t) = {pred[t]}

\* thread t is between the writes of a mutation, its locks held
InMutation(t) == pc[t] \in {"fgRmUnlockCurr", "fgRmUnlockPred", "lzUnlink"}
NoMutation == \A t \in Threads : ~InMutation(t)
Reachable == {Chain[i] : i \in 1..Len(Chain)}
ElementNodes == (allocated \ freed) \ {head}
\* the nodes FineGrainedList's remove has unlinked and unlocked, not yet deleted
PendingDelete == {curr[t] : t \in {u \in Threads : pc[u] = "fgDelete"}}

\* C19 as stated: outside the locked mutation steps the reachable nodes are
\* the members; FineGrainedList: exactly the allocated, not freed element
\* nodes; MarkedList: no reachable node is marked.
C19_ReachableIffMember ==
    NoMutation =>
        /\ AbsIsSnapshot
        /\ variant = "fg" => Reachable = ElementNodes
        /\ variant = "lazy" => \A n \in Reachable : ~removed[n]

\* C19, amended: outside the locked mutation steps the values of the
\* reachable nodes are the members; FineGrainedList: the reachable nodes are
\* the allocated, not freed element nodes except those a remove has unlinked
\* and unlocked and is about to delete; MarkedList: no reachable node is
\* marked and the unreachable element nodes are the marked ones.
C19_ReachableMembers ==
    NoMutation =>
        /\ \A v \in Values : Count(ValuesOf(Chain), v) = abs[v]
        /\ variant = "fg" =>
              /\ Reachable = ElementNodes \ PendingDelete
              /\ PendingDelete \subseteq ElementNodes
        /\ variant = "lazy" =>
              /\ \A n \in Reachable : ~removed[n]
              /\ ElementNodes \ Reachable = {n \in Nodes : removed[n]}

\* a FineGrainedList remove has unlinked its node and released both locks,
\* the node not deleted yet
C19_Witness ==
    \E t \in Threads :
        /\ variant = "fg" /\ pc[t] = "fgDelete" /\ NoMutation
        /\ HeldBy(t) = {}
        /\ curr[t] \in ElementNodes \ Reachable

\* C20: validate(pred, curr) is true iff pred is not marked, curr, if any,
\* is not marked, and pred.next = curr; it is called with pred's lock and
\* curr's held, and when it was true pred is the sentinel or in the chain
\* and curr is pred's successor there (none when curr is null); a step of
\* another thread changes neither the next pointer nor the flag of a node
\* whose lock this thread holds.
C20_ValidationCertifies ==
    [][\A t \in Threads : variant = "lazy" =>
          /\ pc[t] = "lzValidate" /\ pc'[t] # pc[t] =>
                /\ m[pred[t]] = t /\ (curr[t] # NULL => m[curr[t]] = t)
                /\ pc'[t] = "lzAct" <=>
                      /\ ~removed[pred[t]]
                      /\ curr[t] # NULL => ~removed[curr[t]]
                      /\ next[pred[t]] = curr[t]
          /\ pc[t] = "lzAct" =>
                /\ pred[t] = head \/ InSeq(Chain, pred[t])
                /\ ~removed[pred[t]] /\ next[pred[t]] = curr[t]
                /\ curr[t] # NULL => InSeq(Chain, curr[t]) /\ ~removed[curr[t]]
                /\ HeldBy(t) = {pred[t], curr[t]} \ {NULL}
          /\ ~StepOf(t) =>
                \A n \in HeldBy(t) : next'[n] = next[n] /\ removed'[n] = removed[n]
      ]_vars

\* after a failed attempt, validation succeeds on a pair in the middle of
\* the list while the other thread is inside a call
C20_Witness ==
    \E t, u \in Threads :
        /\ variant = "lazy" /\ pc[t] = "lzAct" /\ retried[t]
        /\ pred[t] # head /\ curr[t] # NULL
        /\ pc[u] \notin {"idle", "ret"}

\* a FineGrainedList thread that has a predecessor: from locking the sentinel
\* to releasing the predecessor's lock
FgPositioned(t) ==
    /\ variant = "fg"
    /\ pc[t] \in {"fgLockCurr", "fgLoop", "fgLockNext", "fgAct", "fgRelCurr",
                  "fgRelPred", "fgRmUnlockCurr", "fgRmUnlockPred"}

\* C21: while a node is a FineGrainedList thread's predecessor the thread
\* holds its lock, keeps holding it over every step that leaves it the
\* predecessor, and no step of another thread changes the node's next
\* pointer or frees it.
C21_HeldPredecessorStable ==
    [][\A t \in Threads : FgPositioned(t) =>
          /\ m[pred[t]] = t /\ pred[t] \notin freed
          /\ FgPositioned(t)' /\ pred'[t] = pred[t] => m'[pred[t]] = t
          /\ ~StepOf(t) =>
                /\ next'[pred[t]] = next[pred[t]]
                /\ pred[t] \notin freed'
                /\ m'[pred[t]] = t
      ]_vars

\* a thread stands at its stop point behind an element node while the other
\* thread waits for that node's lock
C21_Witness ==
    \E t, u \in Threads :
        /\ variant = "fg" /\ pc[t] = "fgAct" /\ pred[t] # head
        /\ u # t /\ WantedLock(u) = pred[t]

\* C22: when a FineGrainedList traversal loop has stopped, the thread holds
\* the lock of pred and, if curr is not null, of curr, and no other lock;
\* pred.next = curr; pred is the sentinel or has a value below val; curr is
\* null or has a value of at least val.
C22_StopPoint ==
    \A t \in Threads :
        variant = "fg" /\ pc[t] = "fgAct" =>
            /\ HeldBy(t) = {pred[t], curr[t]} \ {NULL}
            /\ predLock[t] = pred[t] /\ currLock[t] = curr[t]
            /\ next[pred[t]] = curr[t]
            /\ pred[t] = head \/ value[pred[t]] < val[t]
            /\ curr[t] = NULL \/ value[curr[t]] >= val[t]

\* a traversal has stopped between a smaller and a larger element
C22_Witness ==
    \E t \in Threads :
        /\ variant = "fg" /\ pc[t] = "fgAct"
        /\ pred[t] # head /\ curr[t] # NULL
        /\ value[pred[t]] < val[t] /\ val[t] < value[curr[t]]

\* the pointers in the locals of a thread inside a call
LivePointers(t) ==
    IF pc[t] \in {"idle", "ret"} THEN {}
    ELSE {pred[t], curr[t], nxt[t], predLock[t], currLock[t]} \ {NULL}

\* the pointers the rest of a FineGrainedList call still reads, locks,
\* unlocks or deletes
UsedPointers(t) ==
    (CASE pc[t] = "fgLockCurr" -> {pred[t], curr[t], predLock[t]}
       [] pc[t] \in {"fgLoop", "fgAct"} -> {pred[t], curr[t], predLock[t], currLock[t]}
       [] pc[t] = "fgLockNext" -> {pred[t], nxt[t], predLock[t]}
       [] pc[t] \in {"fgRmUnlockCurr", "fgRmUnlockPred"} -> {curr[t], predLock[t], currLock[t]}
       [] pc[t] = "fgDelete" -> {curr[t]}
       [] pc[t] \in {"fgRelCurr", "fgRelPred"} -> {predLock[t], currLock[t]}
       [] OTHER -> {}) \ {NULL}

\* C23 as stated: when FineGrainedList's remove deletes its node, no other
\* thread holds the node's lock, waits for it or has a pointer to it in its
\* locals, and no thread inside a call has a pointer to a deleted node.
C23_NoPointerAtFree ==
    [][variant = "fg" =>
          \A t \in Threads :
                /\ pc[t] = "fgDelete" /\ pc'[t] # pc[t] =>
                      /\ HeldBy(t) = {} /\ m[curr[t]] = 0
                      /\ \A u \in Threads \ {t} :
                            WantedLock(u) # curr[t] /\ curr[t] \notin LivePointers(u)
                /\ LivePointers(t) \cap freed = {}
      ]_vars

\* C23, amended: FineGrainedList's remove deletes its node holding no lock,
\* the node unlinked and not deleted before; at that step no other thread
\* holds the node's lock, waits for it or has a pointer to it that it still
\* uses; no thread reads, locks, unlocks or deletes a deleted node, and no
\* deleted node is locked or reachable from the sentinel.
C23_NoUseAfterFree ==
    [][variant = "fg" =>
          /\ \A t \in Threads :
                /\ pc[t] = "fgDelete" /\ pc'[t] # pc[t] =>
                      /\ curr[t] \notin freed /\ freed' = freed \cup {curr[t]}
                      /\ HeldBy(t) = {} /\ m[curr[t]] = 0
                      /\ ~InSeq(Chain, curr[t])
                      /\ \A u \in Threads \ {t} :
                            WantedLock(u) # curr[t] /\ curr[t] \notin UsedPointers(u)
                /\ UsedPointers(t) \cap freed = {}
                /\ WantedLock(t) \notin freed
          /\ \A n \in freed : m[n] = 0
          /\ \A n \in Reachable \cup {head} : n \notin freed /\ next[n] \notin freed
          /\ freed \subseteq freed'
      ]_vars

\* a remove that has released its locks still has in pred a pointer to a
\* node that the other thread's remove is about to delete
C23_Witness ==
    \E t, u \in Threads :
        /\ variant = "fg" /\ pc[t] = "fgDelete" /\ pc[u] = "fgDelete" /\ u # t
        /\ pred[u] = curr[t]

RECURSIVE After(_, _)
\* the nodes met by following next from n, n itself left out, at most k steps
After(n, k) ==
    IF k = 0 \/ n = NULL \/ next[n] = NULL THEN {}
    ELSE {next[n]} \cup After(next[n], k - 1)

\* C24: no thread is about to lock a node whose lock it holds; the next
\* pointers from any node, removed or deleted ones included, never lead back
\* to it; a MarkedList thread's pred and curr are different nodes.
C24_NoReentrantLock ==
    /\ \A t \in Threads :
        /\ WantedLock(t) # NULL => m[WantedLock(t)] # t
        /\ variant = "lazy" /\ pred[t] # NULL => pred[t] # curr[t]
    /\ \A n \in Nodes : n \notin After(n, Cardinality(Nodes))

\* a MarkedList thread that holds its predecessor's lock waits for the
\* successor's lock, held by the other thread
C24_Witness ==
    \E t \in Threads :
        /\ variant = "lazy" /\ pc[t] = "lzLockCurr" /\ Blocked(t)
        /\ HeldBy(t) = {pred[t]}

\* the running call of a locked the sentinel before the running call of b
Earlier(a, b) ==
    \E i, j \in 1..Len(started) : i < j /\ started[i] = a /\ started[j] = b

\* C25: when FineGrainedList call A locked the sentinel before call B, A
\* never takes the lock of a node that B has locked already, and when B has
\* reached its stop point its predecessor is not a node A holds nor a node
\* after one A holds.
C25_NoOvertaking ==
    [][variant = "fg" =>
          \A a, b \in Threads : Earlier(a, b) =>
              /\ \A n \in Nodes : Acquires(a, n) => n \notin locked[b]
              /\ pc[b] = "fgAct" =>
                    \A k \in HeldBy(a) : k # pred[b] /\ ~ListBefore(k, pred[b])
      ]_vars

\* the later call has followed the earlier one over the sentinel and an
\* element node and waits for the node the earlier call stands on
C25_Witness ==
    \E a, b \in Threads :
        /\ variant = "fg" /\ Earlier(a, b)
        /\ Blocked(b) /\ m[WantedLock(b)] = a
        /\ Cardinality(locked[a] \cap locked[b]) >= 2

\* C26: a MarkedList attempt fails its validation only if another thread
\* wrote a next pointer or a removed flag after the attempt read head->next;
\* no step of an attempt up to and including a failed validation and the
\* release of its locks changes a next pointer, a removed flag or the
\* allocated nodes. Each retry thus uses up a write of another thread made
\* during that attempt.
C26_RetryNeedsMutation ==
    [][variant = "lazy" =>
          \A t \in Threads :
              /\ FailsValidation(t) => dirty[t]
              /\ StepOf(t) /\ (InAttempt(t) \/ pc[t] \in {"lzBegin", "lzContCurr", "lzContPred"})
                    => UNCHANGED heapVars
      ]_vars

\* a validation is about to fail, the other thread having changed the list
\* during the attempt
C26_Witness ==
    \E t \in Threads :
        /\ variant = "lazy" /\ pc[t] = "lzValidate"
        /\ dirty[t] /\ ~validate(pred[t], curr[t])

\* the nodes of value v ever allocated
NodesOf(v) == {n \in allocated \ {head} : value[n] = v}
Removers(v) == {t \in Threads : op[t] = "remove" /\ val[t] = v}
\* thread t's remove has taken curr[t] out
TookNode(t) ==
    /\ op[t] = "remove"
    /\ \/ pc[t] \in {"fgRmUnlockCurr", "fgRmUnlockPred", "fgDelete", "lzUnlink"}
       \/ result[t]
Smaller(a, b) == IF a < b THEN a ELSE b

\* C27: on a list holding k nodes of value v, when the threads' calls have
\* all returned, n of them remove(v) and none insert(v), exactly min(k, n)
\* of the removes returned true; two removes never take out the same node.
C27_ConcurrentRemovesExact ==
    /\ \A v \in Values :
          /\ \A t \in Threads : Returning(t)
          /\ Removers(v) # {}
          /\ \A t \in Threads : ~(op[t] = "insert" /\ val[t] = v)
          => Cardinality({t \in Removers(v) : result[t]})
                = Smaller(Cardinality(NodesOf(v)), Cardinality(Removers(v)))
    /\ \A t, u \in Threads : t # u /\ TookNode(t) /\ TookNode(u) => curr[t] # curr[u]

\* two concurrent removes of a value the list held once: one returned true,
\* the other false
C27_Witness ==
    \E v \in Values :
        /\ \A t \in Threads : Returning(t) /\ op[t] = "remove" /\ val[t] = v
        /\ Cardinality(NodesOf(v)) = 1
        /\ \E t, u \in Threads : result[t] /\ ~result[u]

\* the remove that marked node n has not unlinked it yet and holds the locks
\* of n and of its predecessor
BeingRemoved(n) ==
    \E t \in Threads :
        /\ pc[t] = "lzUnlink" /\ curr[t] = n
        /\ m[n] = t /\ m[pred[t]] = t /\ next[pred[t]] = n

\* C28: in MarkedList a removed flag never goes back to false; a marked node
\* is in the chain only while its remove, holding the locks of the node and
\* of its predecessor, has not unlinked it, and never enters the chain
\* again; no step sets the next pointer of a marked node or makes a next
\* pointer point to a marked node.
C28_MarkedStayOut ==
    [][variant = "lazy" =>
          \A n \in Nodes :
              /\ removed[n] => removed'[n]
              /\ removed[n] /\ InSeq(Chain, n) => BeingRemoved(n)
              /\ removed[n] /\ ~InSeq(Chain, n) => ~InSeq(Chain', n)
              /\ removed[n] => next'[n] = next[n]
              /\ next'[n] # next[n] /\ next'[n] # NULL => ~removed'[next'[n]]
      ]_vars

\* the other thread's unlocked traversal stands on a marked node that is
\* still linked
C28_Witness ==
    \E t, u \in Threads :
        /\ variant = "lazy" /\ pc[t] = "lzUnlink" /\ u # t
        /\ removed[curr[t]] /\ InSeq(Chain, curr[t])
        /\ pc[u] = "lzTrav" /\ pred[u] = curr[t]

\* thread t is at its stop point in FineGrainedList
AtStop(t) == variant = "fg" /\ pc[t] = "fgAct"

\* C29: two FineGrainedList threads at their stop points never have the same
\* predecessor, nor any node in common among the nodes they hold.
C29_NoSharedPredecessor ==
    \A t, u \in Threads :
        t # u /\ AtStop(t) /\ AtStop(u) =>
            /\ pred[t] # pred[u]
            /\ HeldBy(t) \cap HeldBy(u) = {}
            /\ HeldBy(t) = {pred[t], curr[t]} \ {NULL}

\* on a list of three or more elements two threads are at their stop points
\* at once, each holding a predecessor and a successor, the pairs apart
C29_Witness ==
    \E t, u \in Threads :
        /\ t # u /\ AtStop(t) /\ AtStop(u)
        /\ Len(Chain) >= 3
        /\ curr[t] # NULL /\ curr[u] # NULL
        /\ {pred[t], curr[t]} \cap {pred[u], curr[u]} = {}
        /\ HeldBy(t) = {pred[t], curr[t]} /\ HeldBy(u) = {pred[u], curr[u]}
====
